---- MODULE Spec2Model ----
(***************************************************************************)
(* Model of tabular_viewer.py: the upload handler, the format dispatch in  *)
(* read_file, the two resumption handlers (manual delimiter, sheet load),  *)
(* the preview card and the shutdown handler.                              *)
(*                                                                         *)
(* Text is modelled as sequences of one-character strings so that the      *)
(* extension split, the lower-casing and the field split are computed.     *)
(***************************************************************************)
EXTENDS Integers, Sequences, FiniteSets, TLC

(* ------------------------------ bounds --------------------------------- *)
MaxUploads == 2
MaxEvents == 2

(* ----------------------------- constants ------------------------------- *)
\* df.head(10)
HeadRows == 10

(* ------------------------------ text ----------------------------------- *)
UpperAlpha == <<"A","B","C","D","E","F","G","H","I","J","K","L","M",
                "N","O","P","Q","R","S","T","U","V","W","X","Y","Z">>
LowerAlpha == <<"a","b","c","d","e","f","g","h","i","j","k","l","m",
                "n","o","p","q","r","s","t","u","v","w","x","y","z">>

\* str.lower() on one character
LowerChar(c) ==
    IF \E i \in 1..26 : UpperAlpha[i] = c
    THEN LowerAlpha[CHOOSE i \in 1..26 : UpperAlpha[i] = c]
    ELSE c

\* str.lower()
Lower(s) == [i \in 1..Len(s) |-> LowerChar(s[i])]

\* s.split(d)[-1] : the part after the last d, the whole of s when d is absent
LastPart(s, d) ==
    LET idx == {i \in 1..Len(s) : s[i] = d}
        last == IF idx = {} THEN 0 ELSE CHOOSE i \in idx : \A j \in idx : j <= i
    IN  SubSeq(s, last + 1, Len(s))

\* the fields of one line of text cut at every occurrence of the character d
RECURSIVE SplitLine(_, _)
SplitLine(line, d) ==
    LET idx == {i \in 1..Len(line) : line[i] = d}
    IN  IF idx = {} THEN <<line>>
        ELSE LET first == CHOOSE i \in idx : \A j \in idx : i <= j
             IN  <<SubSeq(line, 1, first - 1)>>
                 \o SplitLine(SubSeq(line, first + 1, Len(line)), d)

Range(s) == {s[i] : i \in 1..Len(s)}

Min(a, b) == IF a < b THEN a ELSE b

(* ----------------------------- file names ------------------------------ *)
N_a_csv      == <<"a",".","c","s","v">>
N_a_TXT      == <<"a",".","T","X","T">>
N_f_tar_Csv  == <<"f",".","t","a","r",".","C","s","v">>
N_b_xls      == <<"b",".","x","l","s">>
N_b_xlsx     == <<"b",".","x","l","s","x">>
N_b_Xlsm     == <<"b",".","X","l","s","m">>
N_b_xltx     == <<"b",".","x","l","t","x">>
N_b_XLTM     == <<"b",".","X","L","T","M">>
N_c_sas7bdat == <<"c",".","s","a","s","7","b","d","a","t">>
N_c_Xpt      == <<"c",".","X","p","t">>
N_d_json     == <<"d",".","j","s","o","n">>
N_csv        == <<"c","s","v">>
N_e_csv_bak  == <<"e",".","c","s","v",".","b","a","k">>

TextNames  == {N_a_csv, N_a_TXT, N_f_tar_Csv}
ExcelNames == {N_b_xls, N_b_xlsx, N_b_Xlsm, N_b_xltx, N_b_XLTM}
SasNames   == {N_c_sas7bdat, N_c_Xpt}
OtherNames == {N_d_json, N_csv, N_e_csv_bak}
Names == TextNames \cup ExcelNames \cup SasNames \cup OtherNames

\* filename = f"temp/{file.name}"
TempPath(name) == <<"t","e","m","p","/">> \o name

\* the extension taken without lower-casing it
Ext_CaseSensitive(filepath) == LastPart(filepath, ".")

\* ext = filepath.split('.')[-1].lower()
Ext(filepath) == Lower(LastPart(filepath, "."))

E_csv      == <<"c","s","v">>
E_txt      == <<"t","x","t">>
E_xls      == <<"x","l","s">>
E_xlsx     == <<"x","l","s","x">>
E_xlsm     == <<"x","l","s","m">>
E_xltx     == <<"x","l","t","x">>
E_xltm     == <<"x","l","t","m">>
E_sas7bdat == <<"s","a","s","7","b","d","a","t">>
E_xpt      == <<"x","p","t">>

CsvExts   == {E_csv, E_txt}
ExcelExts == {E_xls, E_xlsx, E_xlsm, E_xltx, E_xltm}

(* ------------------------------ tables --------------------------------- *)
\* a DataFrame: ordered column names, ordered rows of cell values
Table(cols, rows) == [columns |-> cols, rows |-> rows]
NoTable == Table(<<>>, <<>>)
NaN == <<"N","a","N">>

TableA == Table(<< <<"p">>, <<"q">> >>, << << <<"1">>, <<"2">> >>, << <<"3">>, <<"4">> >> >>)
TableB == Table(<< <<"r">> >>, << << <<"5">> >>, << <<"6">> >>, << <<"7">> >> >>)

(* --------------------------- file contents ----------------------------- *)
\* what csv.Sniffer answers on the sample of a file: has_header(sample) or
\* sniff(sample) raises, or they give a header verdict and a delimiter
Verdict(throws, hasHeader, delim) ==
    [throws |-> throws, has_header |-> hasHeader, delimiter |-> delim]
SniffThrows == Verdict(TRUE, FALSE, "")

NoSheets == <<>>
Sheet(name, readable, df) == [name |-> name, readable |-> readable, df |-> df]

TextFile(lines, v) ==
    [kind |-> "text", lines |-> lines, sniff |-> v, sheets |-> NoSheets, df |-> NoTable]
Workbook(sheets) ==
    [kind |-> "book", lines |-> <<>>, sniff |-> SniffThrows, sheets |-> sheets, df |-> NoTable]
SasFile(kind, df) ==
    [kind |-> kind, lines |-> <<>>, sniff |-> SniffThrows, sheets |-> NoSheets, df |-> df]
NoFile == [kind |-> "absent", lines |-> <<>>, sniff |-> SniffThrows, sheets |-> NoSheets, df |-> NoTable]

\* "a,b\n1,2\n3,4\n"
T_comma  == TextFile(<< <<"a",",","b">>, <<"1",",","2">>, <<"3",",","4">> >>,
                     Verdict(FALSE, TRUE, ","))
\* "a;b\n1;2\n3;4\n"
T_semi   == TextFile(<< <<"a",";","b">>, <<"1",";","2">>, <<"3",";","4">> >>,
                     Verdict(FALSE, TRUE, ";"))
\* "1;2\n3;4\n5;6\n"
T_nohdr  == TextFile(<< <<"1",";","2">>, <<"3",";","4">>, <<"5",";","6">> >>,
                     Verdict(FALSE, FALSE, ";"))
\* "a,b\n1,2\n3,4,5\n"
T_ragged == TextFile(<< <<"a",",","b">>, <<"1",",","2">>, <<"3",",","4",",","5">> >>,
                     SniffThrows)

S1 == <<"S","1">>
S2 == <<"S","2">>
S3 == <<"S","3">>
B_one   == Workbook(<< Sheet(S1, TRUE, TableA) >>)
\* two data sheets and a sheet that pd.read_excel cannot read (a chart sheet)
B_three == Workbook(<< Sheet(S1, TRUE, TableA), Sheet(S2, TRUE, TableB),
                       Sheet(S3, FALSE, NoTable) >>)

\* a dataset of one row more than a preview shows
LongRows == HeadRows + 1
TableLong ==
    Table(<< <<"k">>, <<"v">> >>,
          [i \in 1..LongRows |-> << <<LowerAlpha[i]>>, <<UpperAlpha[i]>> >>])

Sas7 == SasFile("sas7bdat", TableLong)

\* the upload events of the model: (file.name, file.content.read())
Inputs ==
    ({N_a_csv} \X {T_nohdr, T_ragged})
    \cup ({N_a_TXT} \X {T_semi})
    \cup ({N_b_xlsx} \X {B_one, B_three})
    \cup ({N_c_sas7bdat} \X {Sas7})
    \cup ({N_d_json} \X {T_comma})

\* the texts the delimiter input can hold when Submit is clicked
DelimiterTexts == {"", ",", ";"}

\* sheet_select.value before any choice, and sheet_name=None
None == <<>>

(* --------------------------- library calls ----------------------------- *)
\* the outcome of a library reader: a DataFrame or a raised exception
Ok(df)   == [ok |-> TRUE,  df |-> df,      err |-> ""]
Err(msg) == [ok |-> FALSE, df |-> NoTable, err |-> msg]

\* a data row cut to, or filled with NaN up to, the width of the header
FitRow(row, n) == [j \in 1..n |-> IF j <= Len(row) THEN row[j] ELSE NaN]

\* pd.read_csv(filepath, delimiter=delimiter): the first line gives the column
\* names, every later line is a row; an empty delimiter, an empty file and a
\* row with more fields than the header raise
ReadCsv(content, delimiter) ==
    IF content.kind # "text" THEN Err("decode")
    ELSE IF delimiter = "" THEN Err("delimiter")
    ELSE IF content.lines = <<>> THEN Err("No columns to parse from file")
    ELSE LET cut    == [i \in 1..Len(content.lines) |-> SplitLine(content.lines[i], delimiter)]
             header == cut[1]
         IN  IF \E i \in 2..Len(cut) : Len(cut[i]) > Len(header)
             THEN Err("Error tokenizing data")
             ELSE Ok(Table(header, [i \in 1..(Len(cut) - 1) |-> FitRow(cut[i + 1], Len(header))]))

\* xl.sheet_names
SheetNames(content) == [i \in 1..Len(content.sheets) |-> content.sheets[i].name]

\* pd.read_excel(filepath, sheet_name=...): a name gives that sheet's table
\* with its first row as the header; None gives a dict of all the sheets
ReadExcel(content, sheet_name) ==
    IF content.kind # "book" THEN [t |-> "raise", df |-> NoTable, err |-> "not a workbook"]
    ELSE IF sheet_name = None THEN [t |-> "dict", df |-> NoTable, err |-> ""]
    ELSE IF \A i \in 1..Len(content.sheets) : content.sheets[i].name # sheet_name
         THEN [t |-> "raise", df |-> NoTable, err |-> "Worksheet not found"]
    ELSE LET sh == content.sheets[CHOOSE i \in 1..Len(content.sheets) :
                                      content.sheets[i].name = sheet_name]
         IN  IF sh.readable THEN [t |-> "df", df |-> sh.df, err |-> ""]
             ELSE [t |-> "raise", df |-> NoTable, err |-> "sheet cannot be read"]

\* pyreadstat.read_sas7bdat / read_xport: (df, meta), or an exception
ReadStat(content, kind) ==
    IF content.kind = kind THEN Ok(content.df) ELSE Err("not a " \o kind \o " file")

(* ------------------------- detect_csv_delimiter ------------------------ *)
Some(d) == [some |-> TRUE, val |-> d]
NoDelimiter == [some |-> FALSE, val |-> ""]

\* the sniffed delimiter returned whatever the header verdict
detect_csv_delimiter_NoFallback(content) ==
    IF content.sniff.throws THEN NoDelimiter ELSE Some(content.sniff.delimiter)

\* sniffer.sniff(sample).delimiter if sniffer.has_header(sample) else ','
\* and None when anything in the try block raises
detect_csv_delimiter(content) ==
    IF content.sniff.throws THEN NoDelimiter
    ELSE IF content.sniff.has_header THEN Some(content.sniff.delimiter)
    ELSE Some(",")

(* ------------------------------ read_file ------------------------------ *)
NoPrompt == [kind |-> "none", options |-> <<>>]
Returned(t, df, err, calls, prompt) ==
    [t |-> t, df |-> df, err |-> err, calls |-> calls, prompt |-> prompt]

\* what read_file returns ("df", "dict", or "none" after it built a prompt),
\* or the exception it raises, with the library calls it made on the way
read_file(fs, filepath, sheet_name) ==
    LET ext     == Ext(filepath)
        content == fs[filepath]
    IN  IF ext \in CsvExts THEN
            LET delimiter == detect_csv_delimiter(content)
            IN  IF ~delimiter.some \/ delimiter.val = ""
                THEN Returned("none", NoTable, "", <<"sniff">>,
                              [kind |-> "delimiter", options |-> <<>>])
                ELSE LET r == ReadCsv(content, delimiter.val)
                     IN  Returned(IF r.ok THEN "df" ELSE "raise", r.df, r.err,
                                  <<"sniff", "read_csv">>, NoPrompt)
        ELSE IF ext \in ExcelExts THEN
            IF content.kind # "book"
            THEN Returned("raise", NoTable, "not a workbook", <<"ExcelFile">>, NoPrompt)
            ELSE IF Len(SheetNames(content)) > 1 /\ sheet_name = None
            THEN Returned("none", NoTable, "", <<"ExcelFile">>,
                          [kind |-> "sheet", options |-> SheetNames(content)])
            ELSE LET r == ReadExcel(content, sheet_name)
                 IN  Returned(r.t, r.df, r.err, <<"ExcelFile", "read_excel">>, NoPrompt)
        ELSE IF ext = E_sas7bdat THEN
            LET r == ReadStat(content, "sas7bdat")
            IN  Returned(IF r.ok THEN "df" ELSE "raise", r.df, r.err, <<"read_sas7bdat">>, NoPrompt)
        ELSE IF ext = E_xpt THEN
            LET r == ReadStat(content, "xpt")
            IN  Returned(IF r.ok THEN "df" ELSE "raise", r.df, r.err, <<"read_xport">>, NoPrompt)
        ELSE Returned("raise", NoTable, "Unsupported file format", <<>>, NoPrompt)

(* ---------------------------- display_table ---------------------------- *)
\* to_dict('records') of the whole DataFrame, without head(10)
Records_NoHead(df) ==
    [i \in 1..Len(df.rows) |->
        [c \in Range(df.columns) |->
            df.rows[i][CHOOSE j \in 1..Len(df.columns) : df.columns[j] = c]]]

\* df.head(10).to_dict('records'): each row maps a column name to its cell
Records(df) ==
    [i \in 1..Min(HeadRows, Len(df.rows)) |->
        [c \in Range(df.columns) |->
            df.rows[i][CHOOSE j \in 1..Len(df.columns) :
                          /\ df.columns[j] = c
                          /\ \A k \in 1..Len(df.columns) : df.columns[k] = c => k <= j]]]

Preview(df) == [columns |-> df.columns, rows |-> Records(df)]
NoPreview == [columns |-> <<>>, rows |-> <<>>]

\* the card display_table leaves behind: complete for a DataFrame; for the
\* dict of sheets df.columns raises after the label was added, so the card
\* keeps its label and has neither table nor Close button
display_table(u, filepath, parent, t, df) ==
    [upload |-> u, path |-> filepath, parent |-> parent, live |-> TRUE,
     label |-> TRUE,
     hasTable |-> (t = "df"),
     table |-> IF t = "df" THEN Preview(df) ELSE NoPreview,
     close |-> (t = "df")]

(* ------------------------------- state --------------------------------- *)
VARIABLES
    uploads,        \* the upload events handled so far: <<name, bytes>> each
    tempDir,        \* os.path.exists('temp')
    files,          \* the files under temp/, by path
    prompts,        \* the input rows read_file has built (ui.row containers)
    cards,          \* the cards display_table has built
    notifications,  \* the ui.notify(..., type='negative') calls made
    escaped,        \* the exceptions that left a handler uncaught
    stopped,        \* app.shutdown() was called
    last,           \* the handler run by the latest event and what it did
    nEvents         \* user events other than uploads handled so far

vars == <<uploads, tempDir, files, prompts, cards, notifications, escaped,
          stopped, last, nEvents>>

Paths == {TempPath(in[1]) : in \in Inputs}
Page == 0

NoEvent ==
    [handler |-> "none", upload |-> 0, prompt |-> 0, card |-> 0,
     delimiter |-> "", sheet |-> None, calls |-> <<>>, outcome |-> "none"]

Event(handler, u, p, c, d, sh, calls, outcome) ==
    [handler |-> handler, upload |-> u, prompt |-> p, card |-> c,
     delimiter |-> d, sheet |-> sh, calls |-> calls, outcome |-> outcome]

Prompt(u, filepath, parent, pr) ==
    [upload |-> u, path |-> filepath, parent |-> parent, live |-> TRUE,
     kind |-> pr.kind, options |-> pr.options]

\* element e (by its parent) lies inside container p
RECURSIVE Inside(_, _, _)
Inside(parent, p, ps) ==
    IF parent = Page THEN FALSE
    ELSE IF parent = p THEN TRUE
    ELSE Inside(ps[parent].parent, p, ps)

Gone(card) ==
    [card EXCEPT !.live = FALSE, !.label = FALSE, !.hasTable = FALSE,
                 !.table = NoPreview, !.close = FALSE]

\* a clear that deletes the nested rows but leaves the row's own buttons
ClearedPrompts_KeepsButtons(p, ps) ==
    [i \in 1..Len(ps) |->
        IF Inside(ps[i].parent, p, ps) THEN [ps[i] EXCEPT !.live = FALSE] ELSE ps[i]]

\* container.clear(): every element inside the row is deleted
ClearedPrompts(p, ps) ==
    [i \in 1..Len(ps) |->
        IF i = p \/ Inside(ps[i].parent, p, ps) THEN [ps[i] EXCEPT !.live = FALSE] ELSE ps[i]]
ClearedCards(p, ps, cs) ==
    [i \in 1..Len(cs) |-> IF Inside(cs[i].parent, p, ps) THEN Gone(cs[i]) ELSE cs[i]]

Init ==
    /\ uploads = <<>>
    /\ tempDir = FALSE
    /\ files = [f \in Paths |-> NoFile]
    /\ prompts = <<>>
    /\ cards = <<>>
    /\ notifications = <<>>
    /\ escaped = <<>>
    /\ stopped = FALSE
    /\ last = NoEvent
    /\ nEvents = 0

Note(u, msg) == [upload |-> u, err |-> msg]

(* ---------------------------- handle_upload ---------------------------- *)
\* a write that happens only once the extension was found to be supported
Written_IfSupported(fs, filename, content) ==
    IF Ext(filename) \in CsvExts \cup ExcelExts \cup {E_sas7bdat, E_xpt}
    THEN [fs EXCEPT ![filename] = content]
    ELSE fs

\* with open(filename, 'wb') as f: f.write(content)
Written(fs, filename, content) == [fs EXCEPT ![filename] = content]

handle_upload(name, content) ==
    LET u        == Len(uploads) + 1
        filename == TempPath(name)
        written  == Written(files, filename, content)
        r        == read_file(written, filename, None)
    IN  /\ ~stopped
        /\ Len(uploads) < MaxUploads
        /\ uploads' = Append(uploads, <<name, content>>)
        /\ tempDir' = TRUE
        /\ files' = written
        /\ prompts' = IF r.t = "none"
                      THEN Append(prompts, Prompt(u, filename, Page, r.prompt))
                      ELSE prompts
        /\ cards' = IF r.t \in {"df", "dict"}
                    THEN Append(cards, display_table(u, filename, Page, r.t, r.df))
                    ELSE cards
        /\ notifications' =
              IF r.t = "raise" THEN Append(notifications, Note(u, r.err))
              ELSE IF r.t = "dict" THEN Append(notifications, Note(u, "no attribute columns"))
              ELSE notifications
        /\ last' = Event("handle_upload", u, 0, 0, "", None, r.calls,
                         CASE r.t = "df"    -> "preview"
                           [] r.t = "none"  -> "prompt"
                           [] r.t = "raise" -> "error"
                           [] r.t = "dict"  -> "error")
        /\ UNCHANGED <<escaped, stopped, nEvents>>

(* ----------------------- handle_manual_delimiter ----------------------- *)
\* the Submit button of a delimiter prompt
handle_manual_delimiter(p, delimiter) ==
    LET pr == prompts[p]
        r  == ReadCsv(files[pr.path], delimiter)
    IN  /\ ~stopped
        /\ nEvents < MaxEvents
        /\ pr.live /\ pr.kind = "delimiter"
        /\ prompts' = IF r.ok THEN ClearedPrompts(p, prompts) ELSE prompts
        /\ cards' = IF r.ok
                    THEN Append(ClearedCards(p, prompts, cards),
                                display_table(pr.upload, pr.path, p, "df", r.df))
                    ELSE cards
        /\ notifications' = IF r.ok THEN notifications
                            ELSE Append(notifications, Note(pr.upload, r.err))
        /\ last' = Event("handle_manual_delimiter", pr.upload, p, 0, delimiter, None,
                         <<"read_csv">>, IF r.ok THEN "preview" ELSE "error")
        /\ nEvents' = nEvents + 1
        /\ UNCHANGED <<uploads, tempDir, files, escaped, stopped>>

(* -------------------------- handle_excel_sheet ------------------------- *)
\* the Load button of a sheet prompt; sheet_name is sheet_select.value
handle_excel_sheet(p, sheet_name) ==
    LET pr == prompts[p]
        r  == read_file(files, pr.path, sheet_name)
    IN  /\ ~stopped
        /\ nEvents < MaxEvents
        /\ pr.live /\ pr.kind = "sheet"
        /\ prompts' = IF r.t = "none"
                      THEN Append(prompts, Prompt(pr.upload, pr.path, p, r.prompt))
                      ELSE prompts
        /\ cards' = IF r.t \in {"df", "dict"}
                    THEN Append(cards, display_table(pr.upload, pr.path, p, r.t, r.df))
                    ELSE cards
        /\ escaped' =
              IF r.t = "raise" THEN Append(escaped, Note(pr.upload, r.err))
              ELSE IF r.t = "dict" THEN Append(escaped, Note(pr.upload, "no attribute columns"))
              ELSE escaped
        /\ last' = Event("handle_excel_sheet", pr.upload, p, 0, "", sheet_name, r.calls,
                         CASE r.t = "df"    -> "preview"
                           [] r.t = "none"  -> "prompt"
                           [] r.t = "raise" -> "escaped"
                           [] r.t = "dict"  -> "escaped")
        /\ nEvents' = nEvents + 1
        /\ UNCHANGED <<uploads, tempDir, files, notifications, stopped>>

(* ------------------------------ Close buttons -------------------------- *)
\* the Close button of a prompt: container.clear()
close_prompt(p) ==
    /\ ~stopped
    /\ nEvents < MaxEvents
    /\ prompts[p].live
    /\ prompts' = ClearedPrompts(p, prompts)
    /\ cards' = ClearedCards(p, prompts, cards)
    /\ last' = Event("close_prompt", prompts[p].upload, p, 0, "", None, <<>>, "closed")
    /\ nEvents' = nEvents + 1
    /\ UNCHANGED <<uploads, tempDir, files, notifications, escaped, stopped>>

\* a Close that also removes the temp file the card was read from
remove_card_DeletesFile(c) ==
    /\ ~stopped
    /\ nEvents < MaxEvents
    /\ cards[c].live /\ cards[c].close
    /\ cards' = [cards EXCEPT ![c] = Gone(cards[c])]
    /\ files' = [files EXCEPT ![cards[c].path] = NoFile]
    /\ last' = Event("remove_card", cards[c].upload, 0, c, "", None, <<>>, "closed")
    /\ nEvents' = nEvents + 1
    /\ UNCHANGED <<uploads, tempDir, prompts, notifications, escaped, stopped>>

\* a Close that empties the card but leaves its Close button in place
remove_card_KeepsButton(c) ==
    /\ ~stopped
    /\ nEvents < MaxEvents
    /\ cards[c].close
    /\ cards' = [cards EXCEPT ![c] = [Gone(cards[c]) EXCEPT !.close = TRUE]]
    /\ last' = Event("remove_card", cards[c].upload, 0, c, "", None, <<>>, "closed")
    /\ nEvents' = nEvents + 1
    /\ UNCHANGED <<uploads, tempDir, files, prompts, notifications, escaped, stopped>>

\* the Close button of a card: card.clear(); card.delete()
remove_card(c) ==
    /\ ~stopped
    /\ nEvents < MaxEvents
    /\ cards[c].live /\ cards[c].close
    /\ cards' = [cards EXCEPT ![c] = Gone(cards[c])]
    /\ last' = Event("remove_card", cards[c].upload, 0, c, "", None, <<>>, "closed")
    /\ nEvents' = nEvents + 1
    /\ UNCHANGED <<uploads, tempDir, files, prompts, notifications, escaped, stopped>>

(* ------------------------------- shutdown ------------------------------ *)
\* app.shutdown() without the rmtree
shutdown_KeepsFiles ==
    /\ ~stopped
    /\ stopped' = TRUE
    /\ last' = Event("shutdown", 0, 0, 0, "", None, <<>>, "stopped")
    /\ UNCHANGED <<uploads, tempDir, files, prompts, cards, notifications, escaped, nEvents>>

\* shutil.rmtree('temp') when it exists, then app.shutdown()
shutdown ==
    /\ ~stopped
    /\ tempDir' = FALSE
    /\ files' = [f \in Paths |-> NoFile]
    /\ stopped' = TRUE
    /\ last' = Event("shutdown", 0, 0, 0, "", None, <<>>, "stopped")
    /\ UNCHANGED <<uploads, prompts, cards, notifications, escaped, nEvents>>

Upload == \E in \in Inputs : handle_upload(in[1], in[2])
Submit == \E p \in 1..Len(prompts) : \E d \in DelimiterTexts : handle_manual_delimiter(p, d)
Load ==
    \E p \in 1..Len(prompts) :
        \E sh \in Range(prompts[p].options) \cup {None} : handle_excel_sheet(p, sh)
ClosePrompt == \E p \in 1..Len(prompts) : close_prompt(p)
CloseCard == \E c \in 1..Len(cards) : remove_card(c)
Shutdown == shutdown

Next == Upload \/ Submit \/ Load \/ ClosePrompt \/ CloseCard \/ Shutdown

Spec == Init /\ [][Next]_vars

(* ======================= properties of the claims ====================== *)
Submissions == {"handle_manual_delimiter", "handle_excel_sheet"}

\* the upload whose handler, or whose prompt's handler, ran last
LastName    == uploads[last.upload][1]
LastContent == uploads[last.upload][2]
LastPath    == TempPath(LastName)

CardsOf(u)   == {c \in 1..Len(cards) : cards[c].upload = u}
PromptsOf(u) == {p \in 1..Len(prompts) : prompts[p].upload = u}
NotesOf(u)   == {i \in 1..Len(notifications) : notifications[i].upload = u}

\* C1: each upload owns its own temp file: the bytes a resumption (Submit or
\* Load) of an upload reads are the bytes that same upload wrote.
C1_ResumptionReadsOwnBytes ==
    last.handler \in Submissions => files[prompts[last.prompt].path] = LastContent

\* C2: an upload goes through at most one submission: once a Submit or a Load
\* was handled for an upload no submission of that upload is enabled any
\* more, and an upload never has more than one preview.
C2_OneSubmissionPerUpload ==
    /\ last.handler \in Submissions =>
          \A p \in PromptsOf(last.upload) : ~prompts[p].live
    /\ \A u \in 1..Len(uploads) :
          Cardinality({c \in CardsOf(u) : cards[c].hasTable}) <= 1

\* C3: every failure in handle_upload, handle_manual_delimiter and
\* handle_excel_sheet is caught by the handler and notified: no exception
\* leaves a handler.
C3_NoExceptionEscapes ==
    /\ escaped = <<>>
    /\ last.handler \in Submissions \cup {"handle_upload"} => last.outcome # "escaped"

\* C4: an uploaded Excel-family workbook with exactly one sheet is previewed
\* without a prompt, and the preview is that sheet's table.
C4_SingleSheetPreviewed ==
    (/\ last.handler = "handle_upload"
     /\ Ext(LastPath) \in ExcelExts
     /\ LastContent.kind = "book"
     /\ Len(LastContent.sheets) = 1
     /\ LastContent.sheets[1].readable)
    => /\ last.outcome = "preview"
       /\ PromptsOf(last.upload) = {}
       /\ CardsOf(last.upload) = {Len(cards)}
       /\ cards[Len(cards)].close
       /\ cards[Len(cards)].table = Preview(LastContent.sheets[1].df)

SupportedExts == CsvExts \cup ExcelExts \cup {E_sas7bdat, E_xpt}

\* the lowercase suffix after the last '.' of an uploaded name is a supported
\* extension (a name without '.' has no such suffix)
SupportedName(name) ==
    /\ "." \in Range(name)
    /\ Lower(LastPart(name, ".")) \in SupportedExts

Unsupported(r) == r.t = "raise" /\ r.err = "Unsupported file format" /\ r.calls = <<>>

\* C5: an upload whose name has no supported suffix fails with the
\* unsupported-format error before any parser runs and before any prompt is
\* built, is notified, leaves neither preview nor prompt, and the session
\* keeps accepting uploads; a name with a supported suffix, in any letter
\* case, is never rejected that way.
C5_UnsupportedRejected ==
    last.handler = "handle_upload" =>
        /\ ~SupportedName(LastName) =>
              /\ last.outcome = "error"
              /\ last.calls = <<>>
              /\ notifications[Len(notifications)] = Note(last.upload, "Unsupported file format")
              /\ CardsOf(last.upload) = {}
              /\ PromptsOf(last.upload) = {}
              /\ ~stopped
              /\ Len(uploads) < MaxUploads => ENABLED Upload
        /\ SupportedName(LastName) =>
              \A i \in NotesOf(last.upload) : notifications[i].err # "Unsupported file format"
        /\ \A n \in Names :
              Unsupported(read_file([f \in {TempPath(n)} |-> LastContent], TempPath(n), None))
              <=> ~SupportedName(n)

\* an unsupported upload was rejected and the next upload, named A.TXT, was previewed
C5_Witness ==
    /\ Len(uploads) = 2
    /\ uploads[1][1] = N_d_json
    /\ notifications # <<>> /\ notifications[1] = Note(1, "Unsupported file format")
    /\ last.handler = "handle_upload" /\ last.upload = 2
    /\ LastName = N_a_TXT
    /\ last.outcome = "preview"

\* C6: a manually submitted delimiter that fails to parse is notified, gives
\* no preview, and abandons the upload: after the failed Submit no further
\* Submit of that upload is possible.
C6_FailedSubmitAbandons ==
    (last.handler = "handle_manual_delimiter" /\ last.outcome = "error") =>
        /\ notifications # <<>>
        /\ notifications[Len(notifications)].upload = last.upload
        /\ \A c \in CardsOf(last.upload) : cards[c].parent # last.prompt
        /\ ~prompts[last.prompt].live

\* C7: a submission never leads to another prompt for the same upload: every
\* Submit and every Load (any value of the selector, no selection included)
\* either shows a preview or reports an error.
C7_NoSecondPrompt ==
    last.handler \in Submissions =>
        /\ Cardinality(PromptsOf(last.upload)) = 1
        /\ last.outcome \in {"preview", "error"}

C9_HeaderlessFirstRowKept ==
    (/\ last.handler = "handle_upload"
     /\ Ext(LastPath) \in CsvExts
     /\ LastContent.kind = "text"
     /\ ~LastContent.sniff.throws
     /\ ~LastContent.sniff.has_header
     /\ last.outcome = "preview")
    => LET t     == cards[Len(cards)].table
           first == SplitLine(LastContent.lines[1], ",")
       IN  /\ Len(t.rows) = Min(HeadRows, Len(LastContent.lines))
           /\ t.columns # first
           /\ {t.rows[1][c] : c \in Range(t.columns)} = Range(first)

\* the table of the sheet of that name in a workbook
SheetIndex(content, name) ==
    CHOOSE i \in 1..Len(content.sheets) : content.sheets[i].name = name

\* C10: a workbook of two or more sheets uploaded without a chosen sheet gets
\* no preview and a sheet prompt offering all its sheet names in workbook
\* order; choosing any offered name and pressing Load previews the dataset
\* read from that sheet of the uploaded workbook.
C10_SheetPromptThenLoad ==
    /\ (/\ last.handler = "handle_upload"
        /\ Ext(LastPath) \in ExcelExts
        /\ LastContent.kind = "book"
        /\ Len(LastContent.sheets) >= 2)
       => /\ last.outcome = "prompt"
          /\ CardsOf(last.upload) = {}
          /\ PromptsOf(last.upload) = {Len(prompts)}
          /\ prompts[Len(prompts)].kind = "sheet"
          /\ prompts[Len(prompts)].options = SheetNames(LastContent)
    /\ (/\ last.handler = "handle_excel_sheet"
        /\ last.sheet \in Range(prompts[last.prompt].options)
        /\ last.sheet \in Range(SheetNames(LastContent))
        /\ LastContent.sheets[SheetIndex(LastContent, last.sheet)].readable)
       => /\ last.outcome = "preview"
          /\ cards[Len(cards)].close
          /\ cards[Len(cards)].table =
                Preview(LastContent.sheets[SheetIndex(LastContent, last.sheet)].df)

\* a card that was closed or cleared away: nothing of it is left
IsGone(card) ==
    ~card.live /\ ~card.label /\ ~card.hasTable /\ ~card.close /\ card.table = NoPreview

\* the step is the Close of card c
ClosesCard(c) ==
    /\ cards[c].live /\ cards[c].close
    /\ last'.handler = "remove_card" /\ last'.card = c
    /\ nEvents' = nEvents + 1

\* C11: closing a preview is terminal for it: after the Close of a card the
\* card and its contents are gone, no event of that card (a second Close
\* included) is enabled any more, and the close changes no state of any
\* other upload, preview or prompt.
C11_CloseIsTerminal ==
    [][\A c \in 1..Len(cards) :
          /\ ClosesCard(c) =>
                /\ IsGone(cards'[c])
                /\ Len(cards') = Len(cards)
                /\ \A d \in 1..Len(cards) : d # c => cards'[d] = cards[d]
                /\ UNCHANGED <<uploads, tempDir, files, prompts, notifications,
                               escaped, stopped>>
          /\ IsGone(cards[c]) =>
                /\ cards'[c] = cards[c]
                /\ ~(last'.handler = "remove_card" /\ last'.card = c /\ nEvents' # nEvents)
      ]_vars

\* a preview was closed while another preview and a pending prompt exist
C11_Witness ==
    /\ last.handler = "remove_card"
    /\ IsGone(cards[last.card])
    /\ \E d \in 1..Len(cards) : d # last.card /\ cards[d].live /\ cards[d].close
    /\ \E p \in 1..Len(prompts) : prompts[p].live

EscapesOf(u) == {i \in 1..Len(escaped) : escaped[i].upload = u}

\* no Submit and no Load was handled for upload u: its one prompt is the
\* only thing it has produced
Unsubmitted(u) ==
    /\ Cardinality(PromptsOf(u)) = 1
    /\ CardsOf(u) = {}
    /\ NotesOf(u) = {}
    /\ EscapesOf(u) = {}

\* the prompt of upload u was closed before any submission
ClosedUnsubmitted(u) ==
    /\ Unsubmitted(u)
    /\ \A p \in PromptsOf(u) : ~prompts[p].live

\* the step is the Close of prompt p
ClosesPrompt(p) ==
    /\ prompts[p].live
    /\ last'.handler = "close_prompt" /\ last'.prompt = p
    /\ nEvents' = nEvents + 1

\* C12: closing a prompt before any submission abandons the upload silently:
\* the close issues no notification and changes nothing of other uploads,
\* and afterwards the upload never gets a preview, a notification or another
\* submission.
C12_PromptCloseAbandons ==
    [][\A u \in 1..Len(uploads) :
          /\ \A p \in PromptsOf(u) :
                (Unsubmitted(u) /\ ClosesPrompt(p)) =>
                    /\ ~prompts'[p].live
                    /\ Len(prompts') = Len(prompts)
                    /\ \A q \in 1..Len(prompts) : q # p => prompts'[q] = prompts[q]
                    /\ UNCHANGED <<uploads, tempDir, files, cards, notifications,
                                   escaped, stopped>>
          /\ ClosedUnsubmitted(u) =>
                /\ ClosedUnsubmitted(u)'
                /\ ~(last'.handler \in Submissions /\ last'.upload = u /\ nEvents' # nEvents)
      ]_vars

\* a prompt was closed unsubmitted while another upload's prompt is pending
C12_Witness ==
    /\ last.handler = "close_prompt"
    /\ ClosedUnsubmitted(last.upload)
    /\ \E p \in 1..Len(prompts) : prompts[p].upload # last.upload /\ prompts[p].live

\* the DataFrame the latest handler loaded and handed to display_table
LoadedDf ==
    IF last.handler = "handle_manual_delimiter"
    THEN ReadCsv(files[prompts[last.prompt].path], last.delimiter).df
    ELSE IF last.handler = "handle_excel_sheet"
    THEN read_file(files, prompts[last.prompt].path, last.sheet).df
    ELSE read_file(files, LastPath, None).df

\* C13: the preview of a dataset of M rows has the first min(10, M) rows in
\* source order and all column names in source order, each row mapping
\* every column name to that row's value; M >= 10 gives exactly 10 rows.
C13_PreviewIsHead ==
    last.outcome = "preview" =>
        LET df == LoadedDf
            t  == cards[Len(cards)].table
        IN  /\ cards[Len(cards)].hasTable
            /\ t.columns = df.columns
            /\ Len(t.rows) = Min(HeadRows, Len(df.rows))
            /\ Len(df.rows) >= HeadRows => Len(t.rows) = HeadRows
            /\ \A i \in 1..Len(t.rows) :
                  /\ DOMAIN t.rows[i] = Range(df.columns)
                  /\ \A j \in 1..Len(df.columns) : t.rows[i][df.columns[j]] = df.rows[i][j]

\* a dataset of 11 rows is previewed with exactly its first 10 rows
C13_Witness ==
    /\ last.outcome = "preview"
    /\ LastContent = Sas7
    /\ Len(LastContent.df.rows) > HeadRows
    /\ Len(cards[Len(cards)].table.rows) = HeadRows
    /\ cards[Len(cards)].table.rows[HeadRows][<<"k">>] = <<"j">>

\* C14: temp files are removed by shutdown only: no upload, submission,
\* prompt Close or preview Close deletes a temp file or the directory, so
\* the files of all previews and pending prompts stay readable until
\* shutdown.
C14_OnlyShutdownDeletes ==
    [][~stopped' =>
          /\ tempDir => tempDir'
          /\ \A f \in Paths : files[f] # NoFile => files'[f] # NoFile
          /\ \A p \in 1..Len(prompts') : files'[prompts'[p].path] # NoFile
          /\ \A c \in 1..Len(cards') : files'[cards'[c].path] # NoFile
      ]_vars

\* a preview was closed; its file is still there, and so is the file of
\* another upload's pending prompt
C14_Witness ==
    /\ ~stopped
    /\ last.handler = "remove_card"
    /\ files[cards[last.card].path] # NoFile
    /\ \E p \in 1..Len(prompts) :
          /\ prompts[p].live
          /\ prompts[p].upload # last.upload
          /\ prompts[p].path # cards[last.card].path
          /\ files[prompts[p].path] = uploads[prompts[p].upload][2]

\* C15: on shutdown every temp file of the session is deleted before the
\* application is stopped: once stopped, no temp file and no temp directory
\* exists, whatever uploads, submissions and closes preceded or are pending.
C15_ShutdownDeletesAll ==
    stopped =>
        /\ ~tempDir
        /\ \A f \in Paths : files[f] = NoFile

\* stopped after two uploads, with a prompt and a preview still on the page
C15_Witness ==
    /\ stopped
    /\ Len(uploads) >= 2
    /\ \E p \in 1..Len(prompts) : prompts[p].live
    /\ \E c \in 1..Len(cards) : cards[c].live /\ cards[c].close

\* C16: every handled upload ends in exactly one of: a complete preview card
\* (label, table, Close button), an input prompt, an error notification; a
\* notification never comes with a new card or prompt; and every card that
\* exists has a Close button.
C16_ExactlyOneOutcome ==
    /\ last.handler = "handle_upload" =>
          LET u == last.upload
              preview == /\ CardsOf(u) # {}
                         /\ \A c \in CardsOf(u) :
                               cards[c].label /\ cards[c].hasTable /\ cards[c].close
              prompt  == PromptsOf(u) # {}
              error   == NotesOf(u) # {}
          IN  /\ preview \/ prompt \/ error
              /\ ~(preview /\ prompt) /\ ~(preview /\ error) /\ ~(prompt /\ error)
              /\ error => CardsOf(u) = {} /\ PromptsOf(u) = {}
    /\ \A c \in 1..Len(cards) : cards[c].live => cards[c].close

\* the bytes of the latest upload of the name of upload u
LatestBytes(u) ==
    LET same == {v \in 1..Len(uploads) : uploads[v][1] = uploads[u][1]}
    IN  uploads[CHOOSE v \in same : \A w \in same : w <= v][2]

\* C17: handle_upload writes the bytes to temp/<name> before it looks at the
\* extension: every upload, a rejected or unparsable one included, leaves
\* its temp file in place until shutdown, and the temp directory exists from
\* the first upload on.
C17_WrittenBeforeDispatch ==
    /\ last.handler = "handle_upload" =>
          /\ tempDir
          /\ files[LastPath] = LastContent
    /\ ~stopped =>
          /\ tempDir <=> uploads # <<>>
          /\ \A u \in 1..Len(uploads) : files[TempPath(uploads[u][1])] = LatestBytes(u)
          /\ \A f \in Paths :
                files[f] # NoFile => \E u \in 1..Len(uploads) : TempPath(uploads[u][1]) = f

\* d.json was rejected as unsupported and its bytes are in temp/d.json
C17_Witness ==
    /\ last.handler = "handle_upload"
    /\ LastName = N_d_json
    /\ last.outcome = "error"
    /\ last.calls = <<>>
    /\ files[TempPath(N_d_json)] = T_comma
    /\ tempDir

====
